---- MODULE Spec2Model ----
(***************************************************************************)
(* Optimize / rebalance gateway: inbound validation, solver call with      *)
(* timeout and error classification, response normalization, mock mode.    *)
(*                                                                         *)
(* Numbers are fixed point: weights in thousandths, percentages in tenths  *)
(* of a percent, so weight * 100 (a percentage) is the same integer.       *)
(* Text that the code searches (String(e).includes("timeout")) is a        *)
(* sequence of one-character strings.                                      *)
(***************************************************************************)
EXTENDS Integers, Sequences, FiniteSets, Bags, TLC

\* ---------------------------------------------------------------- bounds
MaxReqs == 2
MaxClock == 2
MaxEnvChanges == 1
MaxPortfolio == 2
MaxEvents == 1
MaxChanges == 3

Reqs == 1..MaxReqs

\* ------------------------------------------------------- inbound payloads
\* req.body values. timeHorizon, budget, maxAssets are integers; 0 stands for
\* a non-positive number and riskLevel "" for a field left out.
ValidPayload ==
    [mode |-> "dataset", dataset |-> "NIFTY50", timeHorizon |-> 30,
     riskLevel |-> "medium", budget |-> 100000, maxAssets |-> 3]
ZeroAssetsPayload ==
    [mode |-> "dataset", dataset |-> "NASDAQ100", timeHorizon |-> 30,
     riskLevel |-> "high", budget |-> 100000, maxAssets |-> 0]
BadDatasetPayload ==
    [mode |-> "dataset", dataset |-> "nifty50", timeHorizon |-> 15,
     riskLevel |-> "low", budget |-> 0, maxAssets |-> 2]

Payloads == {ValidPayload, ZeroAssetsPayload, BadDatasetPayload}

\* obj with obj[key] = v added.
With(obj, key, v) ==
    [k \in DOMAIN obj \cup {key} |-> IF k = key THEN v ELSE obj[k]]

DatasetEnum == {"NIFTY50", "NASDAQ100", "CRYPTO50"}

\* Request bodies that carry a constraints object (weights in thousandths).
InvertedPayload ==
    With(ValidPayload, "constraints", [minWeight |-> 800, maxWeight |-> 200])
OrderedPayload ==
    With(ValidPayload, "constraints", [minWeight |-> 100, maxWeight |-> 900])
MinOnlyPayload == With(ValidPayload, "constraints", [minWeight |-> 800])
OverOnePayload ==
    With(ZeroAssetsPayload, "constraints", [minWeight |-> 200, maxWeight |-> 1500])

\* The bodies OptimizeRequestSchema.parse is called on.
RequestBodies ==
    Payloads \cup {InvertedPayload, OrderedPayload, MinOnlyPayload, OverOnePayload}
    \cup {[ValidPayload EXCEPT !.mode = m, !.timeHorizon = t, !.riskLevel = l] :
              m \in {"dataset", "custom"}, t \in {0, 30}, l \in {"", "extreme"}}

\* An issue of a ZodError: the path of the field and the message.
Issue(path, message) == [path |-> path, message |-> message]

PositiveIssue(body, field) ==
    IF body[field] > 0 THEN <<>>
    ELSE <<Issue(field, "Number must be greater than 0")>>

\* z.number().min(0).max(1).optional() on a field of constraints.
WeightIssue(c, field) ==
    IF field \notin DOMAIN c THEN <<>>
    ELSE IF c[field] < 0
    THEN <<Issue(field, "Number must be greater than or equal to 0")>>
    ELSE IF c[field] > 1000
    THEN <<Issue(field, "Number must be less than or equal to 1")>>
    ELSE <<>>

\* constraints: z.object({minWeight, maxWeight}).partial().optional(); each
\* field is checked on its own.
ConstraintsIssues(body) ==
    IF "constraints" \notin DOMAIN body THEN <<>>
    ELSE WeightIssue(body.constraints, "minWeight")
         \o WeightIssue(body.constraints, "maxWeight")

\* The schema with the check of maxAssets left out.
OptimizeRequestIssues_noMaxAssets(body) ==
    (IF body.dataset \in DatasetEnum THEN <<>>
     ELSE <<Issue("dataset", "Invalid enum value")>>)
    \o PositiveIssue(body, "timeHorizon")
    \o PositiveIssue(body, "budget")

\* The issues of OptimizeRequestSchema.parse(body): zod checks every key of
\* the object and collects the issues in schema order.
OptimizeRequestIssues(body) ==
    (IF body.mode = "dataset" THEN <<>>
     ELSE <<Issue("mode", "Invalid literal value")>>)
    \o (IF body.dataset \in DatasetEnum THEN <<>>
        ELSE <<Issue("dataset", "Invalid enum value")>>)
    \o PositiveIssue(body, "timeHorizon")
    \o (IF body.riskLevel \in {"", "low", "medium", "high"} THEN <<>>
        ELSE <<Issue("riskLevel", "Invalid enum value")>>)
    \o PositiveIssue(body, "budget")
    \o PositiveIssue(body, "maxAssets")
    \o ConstraintsIssues(body)

\* RebalanceRequestSchema is not part of the sources at hand; it is taken to
\* be the same pattern with a time horizon, as the interface section says.
RebalanceRequestIssues(body) ==
    (IF body.dataset \in DatasetEnum THEN <<>>
     ELSE <<Issue("dataset", "Invalid enum value")>>)
    \o PositiveIssue(body, "timeHorizon")
    \o PositiveIssue(body, "budget")
    \o PositiveIssue(body, "maxAssets")

\* ---------------------------------------------------------------- errors
\* A thrown value is a record; `issues` is present on a ZodError only and
\* `type` only where the code sets err.type.
ZodError(issues) == [name |-> "ZodError", issues |-> issues]
TypedError(type) == [name |-> "Error", type |-> type]
PlainError(name) == [name |-> name]

HasIssues(e) == "issues" \in DOMAIN e

\* A catch block that reports the first issue only.
Messages_first(issues) == <<issues[1].message>>

\* e.issues.map(i => i.message)
Messages(issues) == [i \in 1..Len(issues) |-> issues[i].message]

\* OptimizeRequestSchema.parse(body): the parsed value with the default of
\* riskLevel filled in, or a ZodError with all the issues.
OptimizeRequestSchemaParse(body) ==
    IF OptimizeRequestIssues(body) = <<>>
    THEN [ok |-> TRUE,
          value |-> [body EXCEPT !.riskLevel = IF @ = "" THEN "medium" ELSE @]]
    ELSE [ok |-> FALSE, error |-> ZodError(OptimizeRequestIssues(body))]
ErrType(e) == IF "type" \in DOMAIN e THEN e.type ELSE "undefined"

\* ------------------------------------------------------------------ text
\* String(e) of a thrown value: a string thrown as such (the abort reason) is
\* itself; an Error object prints as "<name>: <message>". The cause of a
\* fetch failure (ECONNREFUSED, ENOTFOUND, ...) is not part of that text.
TimeoutWord == <<"t", "i", "m", "e", "o", "u", "t">>
FetchFailedText == <<"f", "e", "t", "c", "h", " ", "f", "a", "i", "l", "e", "d">>
TypeErrorText == <<"T", "y", "p", "e", "E", "r", "r", "o", "r">>

JsString(e) ==
    IF e.isString THEN e.text ELSE e.name \o <<":", " ">> \o e.text

\* s.includes(w)
Includes(s, w) ==
    \E i \in 0..(Len(s) - Len(w)) : SubSeq(s, i + 1, i + Len(w)) = w

\* What fetch() rejects with before a response is received: the abort reason
\* given to controller.abort, or undici's TypeError("fetch failed") whose
\* cause names the network failure.
AbortReason == [isString |-> TRUE, text |-> TimeoutWord, cause |-> "abort"]
FetchFailed(cause) ==
    [isString |-> FALSE, name |-> TypeErrorText, text |-> FetchFailedText,
     cause |-> cause]
TransportCauses == {"ECONNREFUSED", "ENOTFOUND", "UND_ERR_CONNECT_TIMEOUT"}

\* A catch block that does not look at the thrown value.
ClassifyTransport_never(e) == "upstream_unavailable"

\* err.type chosen in the catch block around httpFetch.

ClassifyTransport(e) ==
    IF Includes(JsString(e), TimeoutWord) THEN "upstream_timeout"
    ELSE "upstream_unavailable"

\* A test for 503 where the code tests for 504.
ClassifyStatus_503(status) ==
    IF status = 503 THEN "upstream_unavailable" ELSE "upstream_timeout"

\* err.type chosen for a response whose res.ok is false.

ClassifyStatus(status) ==
    IF status = 504 THEN "upstream_timeout" ELSE "upstream_unavailable"

\* ------------------------------------------------------------ solver JSON
\* FastAPI-shaped bodies: a portfolio of {asset, weight, percentage?,
\* expected_return?}, the dataset echoed, objective_value and gamma.
BodyXYZ ==
    [portfolio |-> << [asset |-> "X", weight |-> 500],
                      [asset |-> "Y", weight |-> 300],
                      [asset |-> "Z", weight |-> 200] >>,
     dataset |-> "NIFTY50"]
BodyPct ==
    [portfolio |-> << [asset |-> "B", weight |-> 600, percentage |-> 625,
                       expected_return |-> 12],
                      [asset |-> "A", weight |-> 400, expected_return |-> 7] >>,
     dataset |-> "NASDAQ", objective_value |-> 42, gamma |-> 5]
\* Contract drift: the portfolio is missing.
BodyDrift == [assets |-> <<"X", "Y">>, dataset |-> "NIFTY50"]
\* The older response contract, with and without a runId.
BodyLegacy ==
    [runId |-> [solver |-> 1], method |-> "quantum", weights |-> <<500, 500>>,
     selected |-> <<"X", "Y">>, expectedReturn |-> 10, risk |-> 5, sharpe |-> 2,
     diagnostics |-> [backend |-> "qaoa"]]
BodyLegacyNoRunId ==
    [method |-> "quantum", weights |-> <<1000>>, selected |-> <<"X">>,
     expectedReturn |-> 10, risk |-> 5, sharpe |-> 2,
     diagnostics |-> [backend |-> "qaoa"]]
\* A rebalance reply: two series of equal length, one per arm.
BodySeries == [quantum |-> <<100, 104>>, classical |-> <<100, 101>>]

JsonBodies == {BodyXYZ, BodyPct, BodyDrift, BodyLegacy, BodyLegacyNoRunId, BodySeries}

\* The bodies the solver sends, or the fixture file holds, in the gateway runs.
ServedJson == {BodyXYZ, BodyDrift, BodyLegacyNoRunId, BodySeries}

\* A body as sent: text that parses to a JSON value, or text that does not.
NotJson == [parses |-> FALSE]
Json(v) == [parses |-> TRUE, value |-> v]
HttpBodies == {NotJson} \cup {Json(v) : v \in ServedJson}

Has(obj, key) == key \in DOMAIN obj

\* Portfolio entries: an asset and a weight, with or without a percentage
\* and with or without an expected_return (0 is a number like any other).
BareEntries == {[asset |-> a, weight |-> w] : a \in {"X", "Y"}, w \in {125, 500}}
PctEntries ==
    BareEntries \cup {With(p, "percentage", 625) : p \in BareEntries}
PortfolioEntries ==
    PctEntries \cup {With(p, "expected_return", v) : p \in PctEntries, v \in {0, 12}}

\* The portfolios of up to MaxPortfolio entries, in every order.
Portfolios == UNION {[1..n -> PortfolioEntries] : n \in 0..MaxPortfolio}

\* A percentage of 0 next to a weight that is not 0.
BodyPctZero ==
    [portfolio |-> << [asset |-> "X", weight |-> 500, percentage |-> 0],
                      [asset |-> "Y", weight |-> 500] >>,
     dataset |-> "Crypto"]

\* A solver response that brings its own runId.
BodyWithRunId == With(BodyXYZ, "runId", [solver |-> 7])

\* The solver responses normalizeOptimize is called on.
SolverResponses ==
    {[portfolio |-> p, dataset |-> "NIFTY50"] : p \in Portfolios}
    \cup {BodyXYZ, BodyPct, BodyPctZero, BodyDrift, BodyWithRunId}

\* The numbers Math.round is called on, in tenths: on both sides of zero,
\* with a fraction below, at and above one half.
RoundArgs == {-26, -25, -24, -5, 0, 4, 5, 24, 25, 26}

\* The parsed requests toFastApiOptimizeBody is called on; the function
\* itself takes any dataset string and a riskLevel left out ("").
ModeAValues ==
    [dataset : DatasetEnum \cup {"nifty50", "SP500"},
     riskLevel : {"", "low", "high"}, maxAssets : {1, 3}, budget : {1, 100000}]

\* FastApiOptimizeResponseSchema (utils/validate): the raw solver contract.
FastApiEntryOk(p) ==
    /\ Has(p, "asset") /\ Has(p, "weight")
    /\ p.weight >= 0 /\ p.weight <= 1000
    /\ Has(p, "percentage") => (p.percentage >= 0 /\ p.percentage <= 1000)

FastApiOptimizeResponseSchemaOk(json) ==
    /\ Has(json, "portfolio") /\ Has(json, "dataset")
    /\ \A i \in 1..Len(json.portfolio) : FastApiEntryOk(json.portfolio[i])

\* OptimizeResponseSchema.
OptimizeResponseSchemaOk(json) ==
    /\ \A k \in {"runId", "method", "weights", "selected", "expectedReturn",
                 "risk", "sharpe", "diagnostics"} : Has(json, k)
    /\ json.method = "quantum"
    /\ Len(json.weights) >= 1

\* The rebalance reply contract.
RebalanceResponseSchemaOk(json) ==
    /\ Has(json, "quantum") /\ Has(json, "classical")
    /\ Len(json.quantum) = Len(json.classical)

\* ------------------------------------------------------------------ Mapper
\* A mapping that passes the client's value through.
mapDatasetOption_echo(uiDataset) == uiDataset

mapDatasetOption(uiDataset) ==
    CASE uiDataset = "NIFTY50" -> "NIFTY50"
      [] uiDataset = "NASDAQ100" -> "NASDAQ"
      [] uiDataset = "CRYPTO50" -> "Crypto"
      [] OTHER -> "NIFTY50"

\* A mapping that takes the solver's budget from the request's budget.
toFastApiOptimizeBody_swapped(modeA) ==
    [dataset_option |-> mapDatasetOption(modeA.dataset),
     budget |-> modeA.budget,
     risk_factor |-> IF modeA.riskLevel = "" THEN "medium" ELSE modeA.riskLevel,
     total_investment |-> modeA.maxAssets]

toFastApiOptimizeBody(modeA) ==
    [dataset_option |-> mapDatasetOption(modeA.dataset),
     budget |-> modeA.maxAssets,
     risk_factor |-> IF modeA.riskLevel = "" THEN "medium" ELSE modeA.riskLevel,
     total_investment |-> modeA.budget]

\* A rounding that cuts the fraction off.
MathRound_floor(tenths) == tenths \div 10

\* Math.round on a value in tenths: the nearest integer, a half going up.
MathRound(tenths) == (tenths + 5) \div 10

RECURSIVE SumSeq(_)
SumSeq(s) == IF s = <<>> THEN 0 ELSE Head(s) + SumSeq(Tail(s))

\* A mean that counts a missing expected_return as zero.
RECURSIVE ExpRets_missingAsZero(_)
ExpRets_missingAsZero(portfolio) ==
    IF portfolio = <<>> THEN <<>>
    ELSE <<IF Has(Head(portfolio), "expected_return")
           THEN Head(portfolio).expected_return ELSE 0>>
         \o ExpRets_missingAsZero(Tail(portfolio))

\* portfolio.map(p => typeof p.expected_return === "number" ? ... : null)
\* .filter(v => v !== null): the values present, in order.
RECURSIVE ExpRets(_)
ExpRets(portfolio) ==
    IF portfolio = <<>> THEN <<>>
    ELSE (IF Has(Head(portfolio), "expected_return")
          THEN <<Head(portfolio).expected_return>> ELSE <<>>)
         \o ExpRets(Tail(portfolio))

\* A mean is kept as the exact fraction sum / count.
Mean(s) == [sum |-> SumSeq(s), count |-> Len(s)]

OptionalField(obj, key) == IF Has(obj, key) THEN <<obj[key]>> ELSE <<>>

\* A normalizer that lists the selected assets last to first.
normalizeOptimize_reversed(parsed, now) ==
    LET n == Len(parsed.portfolio)
        expRets == ExpRets(parsed.portfolio)
    IN [runId |-> [iso |-> now],
        method |-> "quantum",
        selected |-> [i \in 1..n |-> parsed.portfolio[n + 1 - i].asset],
        weights |-> [i \in 1..n |-> parsed.portfolio[i].weight],
        allocation |-> [i \in 1..n |->
            [name |-> parsed.portfolio[i].asset,
             value |-> MathRound(IF Has(parsed.portfolio[i], "percentage")
                                 THEN parsed.portfolio[i].percentage
                                 ELSE parsed.portfolio[i].weight)]],
        expectedReturn |-> IF Len(expRets) > 0 THEN <<Mean(expRets)>> ELSE <<>>,
        risk |-> <<>>,
        sharpe |-> <<>>,
        diagnostics |-> [backend |-> "fastapi",
                         dataset |-> parsed.dataset,
                         objectiveValue |-> OptionalField(parsed, "objective_value"),
                         gamma |-> OptionalField(parsed, "gamma")]]

\* A normalizer that also writes the time of the call into the diagnostics.
normalizeOptimize_timed(parsed, now) ==
    LET n == Len(parsed.portfolio)
        expRets == ExpRets(parsed.portfolio)
    IN [runId |-> [iso |-> now],
        method |-> "quantum",
        selected |-> [i \in 1..n |-> parsed.portfolio[i].asset],
        weights |-> [i \in 1..n |-> parsed.portfolio[i].weight],
        allocation |-> [i \in 1..n |->
            [name |-> parsed.portfolio[i].asset,
             value |-> MathRound(IF Has(parsed.portfolio[i], "percentage")
                                 THEN parsed.portfolio[i].percentage
                                 ELSE parsed.portfolio[i].weight)]],
        expectedReturn |-> IF Len(expRets) > 0 THEN <<Mean(expRets)>> ELSE <<>>,
        risk |-> <<>>,
        sharpe |-> <<>>,
        diagnostics |-> [backend |-> "fastapi",
                         dataset |-> parsed.dataset,
                         objectiveValue |-> <<now>>,
                         gamma |-> OptionalField(parsed, "gamma")]]

\* normalizeOptimize without its leading schema parse; now = new Date().
normalizeOptimize(parsed, now) ==
    LET n == Len(parsed.portfolio)
        expRets == ExpRets(parsed.portfolio)
    IN [runId |-> [iso |-> now],
        method |-> "quantum",
        selected |-> [i \in 1..n |-> parsed.portfolio[i].asset],
        weights |-> [i \in 1..n |-> parsed.portfolio[i].weight],
        allocation |-> [i \in 1..n |->
            [name |-> parsed.portfolio[i].asset,
             value |-> MathRound(IF Has(parsed.portfolio[i], "percentage")
                                 THEN parsed.portfolio[i].percentage
                                 ELSE parsed.portfolio[i].weight)]],
        expectedReturn |-> IF Len(expRets) > 0 THEN <<Mean(expRets)>> ELSE <<>>,
        risk |-> <<>>,
        sharpe |-> <<>>,
        diagnostics |-> [backend |-> "fastapi",
                         dataset |-> parsed.dataset,
                         objectiveValue |-> OptionalField(parsed, "objective_value"),
                         gamma |-> OptionalField(parsed, "gamma")]]

\* ------------------------------------------------------------------ state
VARIABLES
    env,        \* process.env: MOCK_MODE and QUANTUM_BASE_URL ("" when unset)
    config,     \* the config object of config/env
    envChanges, \* how often process.env has been changed so far
    clock,      \* the millisecond that new Date() read last
    fixture,    \* what fs.readFile finds at the fixture path: a static file,
                \* known from the first read on
    req,        \* the requests, each a record
    serial,     \* whether every request so far arrived after all earlier
                \* ones had ended (calls in succession)
    call,       \* a function of the Mapper or of the schemas called on its
                \* own: its name, its argument and the results so far
    dash,       \* the Dashboard component: its loading flags and the effect
                \* runs that have not ended
    evo         \* the Dashboard's evolution chart: the inputs, the runs of
                \* the evolution effect in the order they started, and the
                \* series shown

vars == <<env, config, envChanges, clock, fixture, req, serial, call, dash, evo>>

Routes == {"optimize", "optimizeJSON", "rebalance"}
SolverUrl == "http://solver"
MockModeValues == {"", "TRUE", "false"}
ReplyStatuses == {200, 500, 503, 504}
EnvValues == [MOCK_MODE : MockModeValues, QUANTUM_BASE_URL : {"", SolverUrl}]

\* The environments a process is started with: the flag unset or set to TRUE
\* (the value false shows up when the environment is changed later on).
StartEnvValues == [MOCK_MODE : {"", "TRUE"}, QUANTUM_BASE_URL : {"", SolverUrl}]

\* config/env is not part of the sources at hand: the configuration is read
\* once at process start from the environment.
ConfigFrom(e) ==
    [mockMode |-> (e.MOCK_MODE = "TRUE" \/ e.MOCK_MODE = "true"),
     quantumBaseUrl |-> e.QUANTUM_BASE_URL]

\* String.prototype.toLowerCase on the flag's values.
ToLowerCase(str) == IF str = "TRUE" THEN "true" ELSE str

\* String(process.env.MOCK_MODE || config.mockMode).toLowerCase() === "true"
MockMode(e, c) ==
    ToLowerCase(IF e.MOCK_MODE # "" THEN e.MOCK_MODE
                ELSE IF c.mockMode THEN "true" ELSE "false") = "true"

\* A base URL that falls back to a local solver when none is configured.
BaseUrl_localhost(e, c) ==
    IF e.QUANTUM_BASE_URL # "" THEN e.QUANTUM_BASE_URL
    ELSE IF c.quantumBaseUrl # "" THEN c.quantumBaseUrl
    ELSE "http://localhost:8000"

\* (process.env.QUANTUM_BASE_URL || config.quantumBaseUrl || "")
BaseUrl(e, c) ==
    IF e.QUANTUM_BASE_URL # "" THEN e.QUANTUM_BASE_URL ELSE c.quantumBaseUrl

Unread == [read |-> FALSE]
FixtureFiles ==
    {[read |-> TRUE, exists |-> FALSE]}
    \cup {[read |-> TRUE, exists |-> TRUE, content |-> b] : b \in HttpBodies}

Idle ==
    [route |-> "none", pc |-> "idle", net |-> "none", body |-> <<>>,
     calls |-> 0, reads |-> 0, timer |-> "none", mock |-> FALSE,
     replyStatus |-> 0, reply |-> <<>>, errBody |-> "none", sent |-> <<>>,
     trace |-> <<>>, cancelled |-> FALSE, outcomes |-> <<>>,
     kind |-> "none", status |-> 0, details |-> <<>>, result |-> <<>>]

\* The request moves to state `to` of the request state machine; `trace`
\* keeps the states it has been in, in order.
Step(rq, to) == [rq EXCEPT !.pc = to, !.trace = Append(@, to)]

\* The keys of the Dashboard's loading state.
LoadingFlags == {"frontier", "sharpe", "qaoa", "alloc", "evo", "stress"}

\* useState({frontier: false, sharpe: false, ...}): the Dashboard before it
\* is mounted has no flag set and no effect running.
NotMounted ==
    [mounted |-> FALSE, events |-> 0,
     loading |-> [f \in LoadingFlags |-> FALSE], runs |-> EmptyBag]

\* The evolution chart before the Dashboard is mounted: useState([]) for the
\* series, the inputs as the store holds them.
EvoTabs == {"home", "evolution"}
EvoNotMounted(tab) ==
    [mounted |-> FALSE, changes |-> 0, activeTab |-> tab,
     dataset |-> "nifty50", maxAssets |-> 0, riskLevel |-> "medium",
     initialEquity |-> 100000, timeHorizon |-> 30, loading |-> FALSE,
     runs |-> <<>>, evolution |-> <<>>, toasts |-> 0]

\* No function is being called on its own.
NoCall == [fn |-> "none", arg |-> <<>>, outs |-> <<>>]

Init ==
    /\ env \in StartEnvValues
    /\ config = ConfigFrom(env)
    /\ envChanges = 0
    /\ clock = 0
    /\ fixture = Unread
    /\ req = [r \in Reqs |-> Idle]
    /\ serial = TRUE
    /\ call = NoCall
    /\ dash = NotMounted
    /\ evo = EvoNotMounted("home")

\* --------------------------------------------------------- error boundary
\* The error middleware behind next(err) is not part of the sources at hand;
\* its table is the one the orchestrator section gives.
ErrorMiddlewareStatus(type) ==
    CASE type = "validation" -> 422
      [] type = "upstream_timeout" -> 504
      [] type = "upstream_unavailable" -> 502
      [] OTHER -> 500

\* The classification a client can read off an err.type.
KindOfType(type) ==
    IF type \in {"validation", "upstream_timeout", "upstream_unavailable"}
    THEN type ELSE "internal"

\* catch (e) of optimizeController, then the error middleware.
OptimizeCatch(rq, e) ==
    LET err == IF HasIssues(e)
               THEN [name |-> "Error", type |-> "validation",
                     details |-> Messages(e.issues)]
               ELSE e
    IN [Step(rq, "failed") EXCEPT !.net = "none",
                  !.outcomes = Append(@, "error"),
                  !.kind = KindOfType(ErrType(err)),
                  !.status = ErrorMiddlewareStatus(ErrType(err)),
                  !.details = IF Has(err, "details") THEN err.details ELSE <<>>]

\* catch (err) of rebalanceHandler.
RebalanceCatch(rq, e) ==
    IF HasIssues(e)
    THEN [Step(rq, "failed") EXCEPT !.net = "none", !.kind = "validation",
                    !.outcomes = Append(@, "error"),
                    !.status = 400, !.details = Messages(e.issues)]
    ELSE [Step(rq, "failed") EXCEPT !.net = "none",
                    !.outcomes = Append(@, "error"),
                    !.kind = KindOfType(ErrType(e)),
                    !.status = CASE ErrType(e) = "upstream_timeout" -> 504
                                 [] ErrType(e) = "upstream_unavailable" -> 502
                                 [] OTHER -> 500]

Catch(rq, e) ==
    IF rq.route = "rebalance" THEN RebalanceCatch(rq, e) ELSE OptimizeCatch(rq, e)

\* ---------------------------------------------------------------- services
Ok(v) == [ok |-> TRUE, value |-> v]
Err(e) == [ok |-> FALSE, error |-> e]

\* new Date().toISOString() at millisecond ms: one text per millisecond.
Now(ms) == [iso |-> ms]

OptimizeResponseKeys ==
    {"runId", "method", "weights", "selected", "expectedReturn", "risk",
     "sharpe", "diagnostics"}

WithRunId(json, id) ==
    [k \in DOMAIN json \cup {"runId"} |-> IF k = "runId" THEN id ELSE json[k]]

\* OptimizeResponseSchema.parse(json): the schema's keys, or a ZodError.
OptimizeResponseParse(json) ==
    IF OptimizeResponseSchemaOk(json)
    THEN Ok([k \in OptimizeResponseKeys |-> json[k]])
    ELSE Err(ZodError(<<Issue("response", "Required")>>))

\* callQuantumOptimize from the point where it holds the JSON value: the mock
\* branch overwrites runId, the live branch sets it only when missing.
callQuantumOptimizeTail(json, mock, now) ==
    OptimizeResponseParse(
        IF mock \/ ~Has(json, "runId") THEN WithRunId(json, now) ELSE json)

\* callQuantumOptimizeJSON from the point where it holds the JSON value:
\* normalizeOptimize parses against the solver schema first; the mock branch
\* then stamps runId again.
callQuantumOptimizeJSONTail(json, mock, now) ==
    IF FastApiOptimizeResponseSchemaOk(json)
    THEN Ok(normalizeOptimize(json, now))
    ELSE Err(ZodError(<<Issue("portfolio", "Required")>>))

\* callQuantumRebalanceJSON is not part of the sources at hand; it is taken
\* to follow callQuantumOptimizeJSON with the series contract.
callQuantumRebalanceJSONTail(json, mock, now) ==
    IF RebalanceResponseSchemaOk(json)
    THEN Ok([runId |-> now, method |-> "quantum",
             quantum |-> json.quantum, classical |-> json.classical])
    ELSE Err(ZodError(<<Issue("series", "Required")>>))

ServiceTail(route, json, mock, now) ==
    CASE route = "optimize" -> callQuantumOptimizeTail(json, mock, now)
      [] route = "optimizeJSON" -> callQuantumOptimizeJSONTail(json, mock, now)
      [] OTHER -> callQuantumRebalanceJSONTail(json, mock, now)

\* A service whose result reaches the client without being normalized.
AfterNormalize_skip(rq, out) ==
    [rq EXCEPT !.net = "none", !.result = <<out.value>>]

\* The service returns the normalized result out.value.
AfterNormalize(rq, out) ==
    [Step(rq, "normalized") EXCEPT !.net = "none", !.result = <<out.value>>]

\* res.status(200).json(result) in the controller.
Respond(rq) ==
    [Step(rq, "returned") EXCEPT !.status = 200,
                                 !.outcomes = Append(@, "response")]

\* A service that keeps the last result in a variable of the module and
\* answers from it when it is there.
Settle_cached(rq, out) ==
    IF ~out.ok THEN Catch(rq, out.error)
    ELSE IF \E q \in Reqs : req[q].pc = "returned"
    THEN Respond(AfterNormalize(rq,
             Ok(req[CHOOSE q \in Reqs : req[q].pc = "returned"].result[1])))
    ELSE Respond(AfterNormalize(rq, out))

\* The continuation of `await callQuantum...(parsed)` in the controller: it
\* runs in the same turn of the event loop as the service's last step.
Settle(rq, out) ==
    IF out.ok THEN Respond(AfterNormalize(rq, out)) ELSE Catch(rq, out.error)

\* ----------------------------------------------------------------- actions
InboundIssues(route, body) ==
    IF route = "rebalance" THEN RebalanceRequestIssues(body)
    ELSE OptimizeRequestIssues(body)

\* A controller whose catch block hands the error on and does not return.
Validate_noReturn(rq) ==
    LET issues == InboundIssues(rq.route, rq.body)
    IN IF issues = <<>> THEN Step(rq, "validated")
       ELSE Step(Catch(rq, ZodError(issues)), "validated")

\* Schema.parse(req.body) in the controller.
Validate(rq) ==
    LET issues == InboundIssues(rq.route, rq.body)
    IN IF issues = <<>> THEN Step(rq, "validated")
       ELSE Catch(rq, ZodError(issues))

\* A service that issues the fetch before it looks at the mock flag.
EnterService_fetchFirst(rq, e, c) ==
    IF MockMode(e, c)
    THEN [Step(rq, "mocked") EXCEPT !.mock = TRUE, !.reads = @ + 1,
                                    !.calls = @ + 1]
    ELSE IF BaseUrl(e, c) = ""
    THEN Catch(rq, TypedError("upstream_unavailable"))
    ELSE [Step(rq, "dispatched") EXCEPT !.net = "pending", !.calls = @ + 1,
                    !.timer = "armed",
                    !.sent = <<IF rq.route = "optimizeJSON"
                                THEN toFastApiOptimizeBody(rq.body)
                                ELSE rq.body>>]

\* Entry of the service up to its first await: the mock branch starts the
\* fixture read; the live branch throws without a base URL, else issues the
\* one fetch and arms the timer.
EnterService(rq, e, c) ==
    IF MockMode(e, c)
    THEN [Step(rq, "mocked") EXCEPT !.mock = TRUE, !.reads = @ + 1]
    ELSE IF BaseUrl(e, c) = ""
    THEN Catch(rq, TypedError("upstream_unavailable"))
    ELSE [Step(rq, "dispatched") EXCEPT !.net = "pending", !.calls = @ + 1,
                    !.timer = "armed",
                    !.sent = <<IF rq.route = "optimizeJSON"
                                THEN toFastApiOptimizeBody(rq.body)
                                ELSE rq.body>>]

\* The handler from its entry to its first await: validation, then the
\* service's entry, in one turn of the event loop.
Handle(rq, e, c) ==
    LET v == Validate(rq)
    IN IF v.pc = "validated" THEN EnterService(v, e, c) ELSE v

\* A request arrives at a route and its handler runs to its first await;
\* requests are numbered in order of arrival.
Receive(r, route, body) ==
    /\ req[r].pc = "idle"
    /\ \A q \in Reqs : q < r => req[q].pc # "idle"
    /\ req' = [req EXCEPT ![r] =
         Handle([Step(@, "received") EXCEPT !.route = route, !.body = body],
                env, config)]
    /\ serial' = (serial /\ \A q \in Reqs :
                                req[q].pc \in {"idle", "returned", "failed"})
    /\ UNCHANGED <<env, config, envChanges, clock, fixture, call, dash, evo>>

\* A mock branch that returns the fixture as it is, without the Mapper.
AfterReadFile_raw(rq, f, now) ==
    IF ~f.exists THEN Catch(rq, PlainError("ENOENT"))
    ELSE IF ~f.content.parses THEN Catch(rq, PlainError("SyntaxError"))
    ELSE Respond(AfterNormalize(rq, Ok(WithRunId(f.content.value, now))))

\* The mock branch after fs.readFile settled on file f: ENOENT, a JSON.parse
\* SyntaxError, or the service's tail.
AfterReadFile(rq, f, now) ==
    IF ~f.exists THEN Catch(rq, PlainError("ENOENT"))
    ELSE IF ~f.content.parses THEN Catch(rq, PlainError("SyntaxError"))
    ELSE Settle(rq, ServiceTail(rq.route, f.content.value, TRUE, now))

\* The wall clock never goes back; it is looked at only where the code reads
\* it, so time passes in the steps that stamp a runId.
ClockRead(ms, stamped) ==
    /\ ms \in clock..MaxClock
    /\ ~stamped => ms = clock
    /\ clock' = ms

ReadFileDone(r, f, ms) ==
    /\ req[r].pc = "mocked"
    /\ fixture.read => f = fixture
    /\ fixture' = f
    /\ req' = [req EXCEPT ![r] = AfterReadFile(@, f, Now(ms))]
    /\ ClockRead(ms, req'[r].pc = "returned")
    /\ UNCHANGED <<env, config, envChanges, serial, call, dash, evo>>

\* An httpFetch without the finally block: the timer stays armed after the
\* response has arrived.
HeadersArrived_noClear(rq, status) ==
    [rq EXCEPT !.replyStatus = status,
               !.net = IF status >= 200 /\ status <= 299 THEN "ok" ELSE "notok"]

\* The solver's status line and headers arrive: fetch resolves and the
\* finally block of httpFetch clears the timer.
HeadersArrived(rq, status) ==
    [rq EXCEPT !.timer = "cleared", !.replyStatus = status,
               !.net = IF status >= 200 /\ status <= 299 THEN "ok" ELSE "notok"]

SolverRespond(r, status) ==
    /\ req[r].pc = "dispatched" /\ req[r].net = "pending"
    /\ req' = [req EXCEPT ![r] = HeadersArrived(@, status)]
    /\ UNCHANGED <<env, config, envChanges, clock, fixture, serial, call, dash, evo>>

\* A catch block that issues the fetch again.
FetchRejected_retry(rq, e, timerAfter) ==
    [rq EXCEPT !.calls = @ + 1, !.timer = "armed"]

\* catch (e) around httpFetch.
FetchRejected(rq, e, timerAfter) ==
    Catch([rq EXCEPT !.timer = timerAfter], TypedError(ClassifyTransport(e)))

\* The connection fails before any response: fetch rejects.
TransportFail(r, cause) ==
    /\ req[r].pc = "dispatched" /\ req[r].net = "pending"
    /\ req' = [req EXCEPT ![r] = FetchRejected(@, FetchFailed(cause), "cleared")]
    /\ UNCHANGED <<env, config, envChanges, clock, fixture, serial, call, dash, evo>>

\* The timer of httpFetch fires: controller.abort("timeout") rejects fetch
\* with the abort reason.
TimerFire(r) ==
    /\ req[r].timer = "armed"
    /\ req' = [req EXCEPT ![r] = FetchRejected(@, AbortReason, "fired")]
    /\ UNCHANGED <<env, config, envChanges, clock, fixture, serial, call, dash, evo>>

\* res.json() settles on a success response: the body is complete.
BodyDone(r, b, ms) ==
    /\ req[r].pc = "dispatched" /\ req[r].net = "ok"
    /\ req' = [req EXCEPT ![r] =
         LET got == [@ EXCEPT !.reply = <<b>>]
         IN IF ~b.parses THEN Catch(got, PlainError("SyntaxError"))
            ELSE Settle(got, ServiceTail(@.route, b.value, FALSE, Now(ms)))]
    /\ ClockRead(ms, req'[r].pc = "returned")
    /\ UNCHANGED <<env, config, envChanges, fixture, serial, call, dash, evo>>

\* res.text() settles on a non-success response (a read failure is swallowed
\* by .catch(() => "")), and the typed error is thrown.
ErrorBodyDone(r, readOk) ==
    /\ req[r].pc = "dispatched" /\ req[r].net = "notok"
    /\ req' = [req EXCEPT ![r] =
         Catch([@ EXCEPT !.errBody = IF readOk THEN "read" ELSE "unreadable"],
               TypedError(ClassifyStatus(@.replyStatus)))]
    /\ UNCHANGED <<env, config, envChanges, clock, fixture, serial, call, dash, evo>>

\* process.env.<name> = value in the running process.
SetEnv(name, value) ==
    /\ envChanges < MaxEnvChanges
    /\ name \in DOMAIN env
    /\ [env EXCEPT ![name] = value] \in EnvValues
    /\ env[name] # value
    /\ env' = [env EXCEPT ![name] = value]
    /\ envChanges' = envChanges + 1
    /\ UNCHANGED <<config, clock, fixture, req, serial, call, dash, evo>>

Next ==
    \/ \E r \in Reqs, route \in Routes, body \in Payloads : Receive(r, route, body)
    \/ \E r \in Reqs, f \in FixtureFiles, ms \in 0..MaxClock : ReadFileDone(r, f, ms)
    \/ \E r \in Reqs, status \in ReplyStatuses : SolverRespond(r, status)
    \/ \E r \in Reqs, cause \in TransportCauses : TransportFail(r, cause)
    \/ \E r \in Reqs : TimerFire(r)
    \/ \E r \in Reqs, b \in HttpBodies, ms \in 0..MaxClock : BodyDone(r, b, ms)
    \/ \E r \in Reqs, readOk \in BOOLEAN : ErrorBodyDone(r, readOk)

Spec == Init /\ [][Next]_vars

\* The program's own steps are taken when they can be: a read of a local
\* file settles and a due timer fires. Nothing makes the solver answer, or a
\* client send a request.
Fairness ==
    \A r \in Reqs :
        /\ WF_vars(\E f \in FixtureFiles, ms \in 0..MaxClock : ReadFileDone(r, f, ms))
        /\ WF_vars(TimerFire(r))

FairSpec == Init /\ [][Next]_vars /\ Fairness

\* The same program in a process whose environment is changed while it runs.
NextEnv ==
    \/ Next
    \/ \E name \in {"MOCK_MODE", "QUANTUM_BASE_URL"},
          value \in MockModeValues \cup {SolverUrl} : SetEnv(name, value)

EnvSpec == Init /\ [][NextEnv]_vars

\* The client of request r goes away while the handler is waiting. The
\* controller listens to no close or aborted event of req, and httpFetch
\* hands fetch only the signal of its own AbortController, so nothing but
\* the connection's state changes.
ClientDisconnect(r) ==
    /\ req[r].pc \in {"mocked", "dispatched"}
    /\ ~req[r].cancelled
    /\ req' = [req EXCEPT ![r].cancelled = TRUE]
    /\ UNCHANGED <<env, config, envChanges, clock, fixture, serial, call, dash, evo>>

\* The same program behind a host whose clients may disconnect.
NextHost ==
    \/ Next
    \/ \E r \in Reqs : ClientDisconnect(r)

HostSpec == Init /\ [][NextHost]_vars

\* ------------------------------------------- functions called on their own
\* The Mapper's functions and the request schema applied to an argument, up
\* to twice, outside any request: the gateway is idle, and new Date() is read at each call of
\* normalizeOptimize.
UnitCalls ==
    {[fn |-> "normalizeOptimize", arg |-> j, outs |-> <<>>] : j \in SolverResponses}
    \cup {[fn |-> "toFastApiOptimizeBody", arg |-> m, outs |-> <<>>] :
              m \in ModeAValues}
    \cup {[fn |-> "OptimizeRequestSchema.parse", arg |-> b, outs |-> <<>>] :
              b \in RequestBodies}
    \cup {[fn |-> "callQuantumOptimize", arg |-> j, outs |-> <<>>] :
              j \in {BodyLegacy, BodyLegacyNoRunId}}
    \cup {[fn |-> "Math.round", arg |-> t, outs |-> <<>>] : t \in RoundArgs}

UnitInit ==
    /\ env = [MOCK_MODE |-> "", QUANTUM_BASE_URL |-> ""]
    /\ config = ConfigFrom(env)
    /\ envChanges = 0
    /\ clock = 0
    /\ fixture = Unread
    /\ req = [r \in Reqs |-> Idle]
    /\ serial = TRUE
    /\ call \in UnitCalls
    /\ dash = NotMounted
    /\ evo = EvoNotMounted("home")

\* normalizeOptimize(call.arg) at millisecond ms.
CallNormalizeOptimize(ms) ==
    /\ call.fn = "normalizeOptimize" /\ Len(call.outs) < 2
    /\ ClockRead(ms, TRUE)
    /\ call' = [call EXCEPT !.outs =
                    Append(@, callQuantumOptimizeJSONTail(call.arg, FALSE, Now(ms)))]
    /\ UNCHANGED <<env, config, envChanges, fixture, req, serial, dash, evo>>

\* toFastApiOptimizeBody(call.arg).
CallToFastApiOptimizeBody ==
    /\ call.fn = "toFastApiOptimizeBody" /\ Len(call.outs) < 2
    /\ call' = [call EXCEPT !.outs = Append(@, toFastApiOptimizeBody(call.arg))]
    /\ UNCHANGED <<env, config, envChanges, clock, fixture, req, serial, dash, evo>>

\* OptimizeRequestSchema.parse(call.arg).
CallOptimizeRequestSchemaParse ==
    /\ call.fn = "OptimizeRequestSchema.parse" /\ Len(call.outs) < 2
    /\ call' = [call EXCEPT !.outs = Append(@, OptimizeRequestSchemaParse(call.arg))]
    /\ UNCHANGED <<env, config, envChanges, clock, fixture, req, serial, dash, evo>>

\* The live tail of callQuantumOptimize on the JSON value call.arg, at
\* millisecond ms.
CallQuantumOptimizeTail(ms) ==
    /\ call.fn = "callQuantumOptimize" /\ Len(call.outs) < 2
    /\ ClockRead(ms, TRUE)
    /\ call' = [call EXCEPT !.outs =
                    Append(@, callQuantumOptimizeTail(call.arg, FALSE, Now(ms)))]
    /\ UNCHANGED <<env, config, envChanges, fixture, req, serial, dash, evo>>

\* Math.round(call.arg), the rounding normalizeOptimize applies.
CallMathRound ==
    /\ call.fn = "Math.round" /\ Len(call.outs) < 2
    /\ call' = [call EXCEPT !.outs = Append(@, MathRound(call.arg))]
    /\ UNCHANGED <<env, config, envChanges, clock, fixture, req, serial, dash, evo>>

UnitNext ==
    \/ CallMathRound
    \/ \E ms \in 0..MaxClock : CallNormalizeOptimize(ms)
    \/ \E ms \in 0..MaxClock : CallQuantumOptimizeTail(ms)
    \/ CallToFastApiOptimizeBody
    \/ CallOptimizeRequestSchemaParse

UnitSpec == UnitInit /\ [][UnitNext]_vars

\* -------------------------------------------------------------- Dashboard
\* The effects and the click handler of the Dashboard are async functions:
\* each runs up to its first await in the turn that starts it and goes on
\* when what it awaits settles. The data the setters store (frontier,
\* sharpeData, topBits, alloc, evolution, stressed) takes no part in the
\* flags; of it only the change of alloc is kept, which starts the stress
\* effect again.
Effects ==
    {"initialLoad", "frontierEffect", "evolutionEffect", "thresholdEffect",
     "stressEffect", "handleRunQuantum"}

\* The flags an effect sets true at its start and false in its finally block.
EffectFlags(effect) ==
    CASE effect = "initialLoad" -> {"frontier", "sharpe", "qaoa", "alloc", "evo"}
      [] effect = "frontierEffect" -> {"frontier"}
      [] effect = "evolutionEffect" -> {"evo"}
      [] effect = "thresholdEffect" -> {"qaoa", "alloc", "frontier"}
      [] effect = "stressEffect" -> {"stress"}
      [] effect = "handleRunQuantum" -> {"qaoa", "alloc", "frontier"}

\* setLoading((l) => ({ ...l, <flags>: value }))
setLoading(l, flags, value) ==
    [f \in LoadingFlags |-> IF f \in flags THEN value ELSE l[f]]

\* A run of an effect at its first await: what it waits for.
FirstAwait(effect) ==
    CASE effect = "initialLoad" ->
           [effect |-> effect, pc |-> "all",
            inflight |-> {"fetchEfficientFrontier", "fetchSharpeComparison",
                          "runQAOASelection"}]
      [] effect = "frontierEffect" ->
           [effect |-> effect, pc |-> "last",
            inflight |-> {"fetchEfficientFrontier"}]
      [] effect = "evolutionEffect" ->
           [effect |-> effect, pc |-> "last", inflight |-> {"backtestEvolution"}]
      [] effect = "thresholdEffect" ->
           [effect |-> effect, pc |-> "all",
            inflight |-> {"runQAOASelection", "fetchEfficientFrontier"}]
      [] effect = "stressEffect" ->
           [effect |-> effect, pc |-> "last", inflight |-> {"stressSim"}]
      [] effect = "handleRunQuantum" ->
           [effect |-> effect, pc |-> "thunk", inflight |-> {"runOptimizeThunk"}]

RECURSIVE StartAll(_, _)
\* The effects of the sequence `effects` start one after the other in one
\* commit: each sets its flags and reaches its first await.
StartAll(d, effects) ==
    IF effects = <<>> THEN d
    ELSE StartAll([d EXCEPT !.loading = setLoading(@, EffectFlags(Head(effects)), TRUE),
                            !.runs = @ (+) SetToBag({FirstAwait(Head(effects))})],
                  Tail(effects))

\* The run goes on after what it awaited has resolved: the next await it
\* reaches, or "done" when it has run through its finally block.
Continue(rn) ==
    IF rn.pc = "thunk"
    THEN [rn EXCEPT !.pc = "all",
                    !.inflight = {"runQAOASelection", "fetchEfficientFrontier"}]
    ELSE IF rn.pc = "all"
    THEN [rn EXCEPT !.pc = "alloc", !.inflight = {"fetchAllocation"}]
    ELSE IF rn.pc = "alloc" /\ rn.effect = "initialLoad"
    THEN [rn EXCEPT !.pc = "evo", !.inflight = {"backtestEvolution"}]
    ELSE [rn EXCEPT !.pc = "done", !.inflight = {}]

\* A run that has ended and waits for nothing is forgotten.
Without(runs, rn) == runs (-) SetToBag({rn})
WithRun(runs, rn) ==
    IF rn.pc = "done" /\ rn.inflight = {} THEN runs ELSE runs (+) SetToBag({rn})

\* The Dashboard is mounted: every effect runs once, in the order of the
\* component's code.
Mount ==
    /\ ~dash.mounted
    /\ dash' = StartAll([dash EXCEPT !.mounted = TRUE],
                        <<"initialLoad", "frontierEffect", "evolutionEffect",
                          "thresholdEffect", "stressEffect">>)
    /\ UNCHANGED <<env, config, envChanges, clock, fixture, req, serial, call, evo>>

\* A new threshold: the effects that have threshold among their
\* dependencies run again.
SetThreshold ==
    /\ dash.mounted /\ dash.events < MaxEvents
    /\ dash' = StartAll([dash EXCEPT !.events = @ + 1],
                        <<"frontierEffect", "thresholdEffect", "stressEffect">>)
    /\ UNCHANGED <<env, config, envChanges, clock, fixture, req, serial, call, evo>>

\* The hybrid switch is toggled: the effects that have useHybrid among
\* their dependencies run again.
SetUseHybrid ==
    /\ dash.mounted /\ dash.events < MaxEvents
    /\ dash' = StartAll([dash EXCEPT !.events = @ + 1],
                        <<"evolutionEffect", "thresholdEffect">>)
    /\ UNCHANGED <<env, config, envChanges, clock, fixture, req, serial, call, evo>>

\* A click on the button: handleRunQuantum runs up to the await of the thunk.
HandleRunQuantum ==
    /\ dash.mounted /\ dash.events < MaxEvents
    /\ dash' = StartAll([dash EXCEPT !.events = @ + 1], <<"handleRunQuantum">>)
    /\ UNCHANGED <<env, config, envChanges, clock, fixture, req, serial, call, evo>>

\* The run after one of the calls it awaits has settled: Promise.all goes on
\* when all have resolved and rejects with the first that rejects; the
\* rejection of the thunk is swallowed by the inner catch.
AfterSettle(rn, fetch, ok) ==
    LET left == [rn EXCEPT !.inflight = @ \ {fetch}]
    IN IF rn.pc = "done" THEN left
       ELSE IF ~ok /\ rn.pc # "thunk" THEN [left EXCEPT !.pc = "done"]
       ELSE IF left.inflight # {} THEN left
       ELSE Continue(left)

\* One of the calls in flight settles, and the run that awaits it goes on:
\* setAlloc starts the stress effect again, and the finally block of a run
\* that ends clears the run's flags.
FetchSettle(rn, fetch, ok) ==
    /\ BagIn(rn, dash.runs) /\ fetch \in rn.inflight
    /\ LET after == AfterSettle(rn, fetch, ok)
           gotAlloc == rn.pc = "alloc" /\ ok
           ends == rn.pc # "done" /\ after.pc = "done"
           d1 == [dash EXCEPT
                    !.runs = WithRun(Without(@, rn), after),
                    !.loading = IF ends
                                THEN setLoading(@, EffectFlags(rn.effect), FALSE)
                                ELSE @]
       IN dash' = IF gotAlloc THEN StartAll(d1, <<"stressEffect">>) ELSE d1
    /\ UNCHANGED <<env, config, envChanges, clock, fixture, req, serial, call, evo>>

Fetches ==
    {"fetchEfficientFrontier", "fetchSharpeComparison", "runQAOASelection",
     "fetchAllocation", "backtestEvolution", "stressSim", "runOptimizeThunk"}

DashInit ==
    /\ env = [MOCK_MODE |-> "", QUANTUM_BASE_URL |-> ""]
    /\ config = ConfigFrom(env)
    /\ envChanges = 0
    /\ clock = 0
    /\ fixture = Unread
    /\ req = [r \in Reqs |-> Idle]
    /\ serial = TRUE
    /\ call = NoCall
    /\ dash = NotMounted
    /\ evo = EvoNotMounted("home")

DashNext ==
    \/ Mount
    \/ SetThreshold
    \/ SetUseHybrid
    \/ HandleRunQuantum
    \/ \E rn \in BagToSet(dash.runs), fetch \in Fetches, ok \in BOOLEAN :
          FetchSettle(rn, fetch, ok)

DashboardSpec == DashInit /\ [][DashNext]_vars

\* ------------------------------------------------- Dashboard, evolution tab
\* The evolution effect of the Dashboard that draws the chart from
\* POST /api/rebalance. What fetchRebalance resolves with is the response
\* body of the rebalance route.
EvoDatasets == {"nifty50", "nasdaq"}
EvoMaxAssets == {0, 3}

DayUp == [time |-> "Day 1", Current |-> 100, Future |-> 101]
DayDown == [time |-> "Day 1", Current |-> 100, Future |-> 99]
RebalanceReplies ==
    {[evolution |-> <<DayUp>>], [evolution |-> <<DayDown>>],
     [detail |-> "no data"]}

\* Math.max(1, Number(value || fallback)) on the numbers of the store.
AtLeastOne(value, fallback) ==
    LET n == IF value = 0 THEN fallback ELSE value
    IN IF n < 1 THEN 1 ELSE n

\* The payload the effect hands to fetchRebalance.
RebalancePayload(e) ==
    [dataset |-> e.dataset,
     budget |-> AtLeastOne(e.maxAssets, 5),
     risk |-> e.riskLevel,
     totalInvestment |-> e.initialEquity,
     timeHorizon |-> AtLeastOne(e.timeHorizon, 30)]

\* Array.isArray(reb?.evolution) ? reb.evolution.map(d => ({time: d.time,
\* Quantum: d.Future, Classical: d.Current})) : []
SeriesOf(reb) ==
    IF "evolution" \in DOMAIN reb
    THEN [i \in 1..Len(reb.evolution) |->
            [time |-> reb.evolution[i].time,
             Quantum |-> reb.evolution[i].Future,
             Classical |-> reb.evolution[i].Current]]
    ELSE <<>>

\* The effect body: nothing off the evolution tab; on it, the evo flag is
\* set and fetchRebalance is called and awaited.
evolutionEffect(e) ==
    IF e.activeTab # "evolution" THEN e
    ELSE [e EXCEPT !.loading = TRUE,
                   !.runs = Append(@, [payload |-> RebalancePayload(e),
                                       pc |-> "pending", reb |-> <<>>])]

\* The Dashboard is mounted: the effect runs for the first time.
EvoMount ==
    /\ ~evo.mounted
    /\ evo' = evolutionEffect([evo EXCEPT !.mounted = TRUE])
    /\ UNCHANGED <<env, config, envChanges, clock, fixture, req, serial, call, dash>>

\* One of the effect's dependencies changes in the store: the effect runs
\* again with the new inputs.
SetInput(name, value) ==
    /\ evo.mounted /\ evo.changes < MaxChanges
    /\ evo[name] # value
    /\ evo' = evolutionEffect([evo EXCEPT ![name] = value, !.changes = @ + 1])
    /\ UNCHANGED <<env, config, envChanges, clock, fixture, req, serial, call, dash>>

\* fetchRebalance resolves for the i-th run: setEvolution(series), then the
\* finally block.
RebalanceResolve(i, reb) ==
    /\ i \in DOMAIN evo.runs /\ evo.runs[i].pc = "pending"
    /\ evo' = [evo EXCEPT !.runs[i] = [@ EXCEPT !.pc = "resolved", !.reb = <<reb>>],
                          !.evolution = SeriesOf(reb),
                          !.loading = FALSE]
    /\ UNCHANGED <<env, config, envChanges, clock, fixture, req, serial, call, dash>>

\* fetchRebalance rejects for the i-th run: the toast, setEvolution([]), then
\* the finally block.
RebalanceReject(i) ==
    /\ i \in DOMAIN evo.runs /\ evo.runs[i].pc = "pending"
    /\ evo' = [evo EXCEPT !.runs[i] = [@ EXCEPT !.pc = "rejected"],
                          !.toasts = @ + 1,
                          !.evolution = <<>>,
                          !.loading = FALSE]
    /\ UNCHANGED <<env, config, envChanges, clock, fixture, req, serial, call, dash>>

EvoInit ==
    /\ env = [MOCK_MODE |-> "", QUANTUM_BASE_URL |-> ""]
    /\ config = ConfigFrom(env)
    /\ envChanges = 0
    /\ clock = 0
    /\ fixture = Unread
    /\ req = [r \in Reqs |-> Idle]
    /\ serial = TRUE
    /\ call = NoCall
    /\ dash = NotMounted
    /\ evo \in {EvoNotMounted(tab) : tab \in EvoTabs}

EvoNext ==
    \/ EvoMount
    \/ \E tab \in EvoTabs : SetInput("activeTab", tab)
    \/ \E d \in EvoDatasets : SetInput("dataset", d)
    \/ \E n \in EvoMaxAssets : SetInput("maxAssets", n)
    \/ \E i \in 1..(MaxChanges + 1), reb \in RebalanceReplies :
          RebalanceResolve(i, reb)
    \/ \E i \in 1..(MaxChanges + 1) : RebalanceReject(i)

EvolutionSpec == EvoInit /\ [][EvoNext]_vars

\* ------------------------------------------------------------------ claims
Ended(r) == req[r].pc \in {"returned", "failed"}

\* The request invariants of the data model, stated apart from the schema.
Malformed(body) ==
    \/ body.maxAssets < 1
    \/ body.timeHorizon < 1
    \/ body.budget < 1
    \/ body.dataset \notin {"NIFTY50", "NASDAQ100", "CRYPTO50"}

\* C1: a request whose inbound payload is malformed has failed with kind
\* validation by the end of its handler's first turn, and it has made no
\* solver call and no fixture read, whatever the mock flag.
C1_ValidationBeforeIO ==
    \A r \in Reqs :
        (req[r].pc # "idle" /\ Malformed(req[r].body))
            => /\ req[r].pc = "failed"
               /\ req[r].kind = "validation"
               /\ req[r].calls = 0
               /\ req[r].reads = 0

\* C1 witness: in mock mode a request with maxAssets = 0 has been rejected
\* while another request did read the fixture.
C1_Witness ==
    /\ MockMode(env, config)
    /\ \E r, q \in Reqs :
        /\ req[r].pc = "failed" /\ req[r].body.maxAssets = 0
        /\ req[q].reads = 1

StatusOfKind(kind) ==
    CASE kind = "validation" -> 422
      [] kind = "upstream_timeout" -> 504
      [] kind = "upstream_unavailable" -> 502
      [] OTHER -> 500

\* C2: the status sent for a failed request is the table's status for its
\* kind, on the optimize and on the rebalance operation.
C2_StatusByKind ==
    \A r \in Reqs :
        req[r].pc = "failed" => req[r].status = StatusOfKind(req[r].kind)

\* The body b of a success reply does not match the contract of the route.
Drifted(route, b) ==
    /\ b.parses
    /\ ~ServiceTail(route, b.value, FALSE, Now(0)).ok

\* C3: a success reply whose body does not match the solver response schema
\* ends the request as failed with kind internal and status 500.
C3_DriftIsInternal ==
    \A r \in Reqs :
        (req[r].replyStatus = 200 /\ req[r].reply # <<>>
         /\ Drifted(req[r].route, req[r].reply[1]))
            => /\ req[r].pc = "failed"
               /\ req[r].kind = "internal"
               /\ req[r].status = 500

\* The fetch of request r was issued and ended without any response.
FailedInTransport(r) ==
    /\ req[r].pc = "failed"
    /\ req[r].calls = 1
    /\ req[r].replyStatus = 0

\* C4: a solver call that failed before any response has kind
\* upstream_timeout exactly when its own timer fired, and
\* upstream_unavailable otherwise.
C4_TransportKind ==
    \A r \in Reqs :
        FailedInTransport(r)
            => req[r].kind = IF req[r].timer = "fired" THEN "upstream_timeout"
                             ELSE "upstream_unavailable"

\* C4 witness: one call ended by its timer and one by a connection failure.
C4_Witness ==
    \E r, q \in Reqs :
        /\ FailedInTransport(r) /\ req[r].timer = "fired"
        /\ FailedInTransport(q) /\ req[q].timer = "cleared"

\* C5: a request that failed on a non-success reply has kind upstream_timeout
\* when the status is 504 and upstream_unavailable otherwise, whether or not
\* the error body could be read.
C5_StatusKind ==
    \A r \in Reqs :
        (req[r].pc = "failed" /\ req[r].replyStatus >= 300)
            => req[r].kind = IF req[r].replyStatus = 504 THEN "upstream_timeout"
                             ELSE "upstream_unavailable"

\* C5 witness: a 503 whose body could not be read and a 504 whose body was.
C5_Witness ==
    \E r, q \in Reqs :
        /\ req[r].pc = "failed" /\ req[r].replyStatus = 503
        /\ req[r].errBody = "unreadable"
        /\ req[q].pc = "failed" /\ req[q].replyStatus = 504
        /\ req[q].errBody = "read"

\* The moves of the request state machine.
Allowed(from, to) ==
    \/ from = "received" /\ to \in {"validated", "failed"}
    \/ from = "validated" /\ to \in {"mocked", "dispatched", "failed"}
    \/ from \in {"mocked", "dispatched"} /\ to \in {"normalized", "failed"}
    \/ from = "normalized" /\ to \in {"returned", "failed"}

C7_MockNoNetwork ==
    [][MockMode(env, config)
          => \A r \in Reqs : req'[r].calls = req[r].calls]_vars

\* C7 witness: with the flag on and a solver URL configured, a request was
\* served from the fixture without a call.
C7_Witness ==
    /\ MockMode(env, config)
    /\ BaseUrl(env, config) = SolverUrl
    /\ \E r \in Reqs :
        /\ req[r].pc = "returned" /\ req[r].mock
        /\ req[r].reads = 1 /\ req[r].calls = 0

WithoutRunId(result) == [k \in DOMAIN result \ {"runId"} |-> result[k]]

\* C8: two mock calls in succession with the same input give responses that
\* agree in every field but runId, and whose runIds differ.
C8_MockTwice ==
    \A r, q \in Reqs :
        (/\ serial /\ r < q
         /\ req[r].pc = "returned" /\ req[q].pc = "returned"
         /\ req[r].mock /\ req[q].mock
         /\ req[r].route = req[q].route /\ req[r].body = req[q].body)
            => /\ WithoutRunId(req[r].result[1]) = WithoutRunId(req[q].result[1])
               /\ req[r].result[1].runId # req[q].result[1].runId

\* C9: a request that has reached dispatched or mocked eventually ends.
C9_CallBounded ==
    \A r \in Reqs :
        (req[r].pc \in {"dispatched", "mocked"}) ~> Ended(r)

\* C10: a request makes at most one solver call.
C10_NoRetry ==
    \A r \in Reqs : req[r].calls <= 1

\* C10 witness: a call that failed in transport and a call that got a 503
\* have both ended with the count at one.
C10_Witness ==
    \E r, q \in Reqs :
        /\ FailedInTransport(r)
        /\ req[q].pc = "failed" /\ req[q].calls = 1 /\ req[q].replyStatus = 503

\* The results of normalizeOptimize on call.arg that are normalized values.
Normalized ==
    IF call.fn = "normalizeOptimize"
    THEN {call.outs[i].value : i \in {k \in 1..Len(call.outs) : call.outs[k].ok}}
    ELSE {}

\* C11: normalizeOptimize on a schema-valid response with a portfolio of
\* length n gives selected, weights and allocation of length n, and
\* selected[i] and allocation[i].name are portfolio[i].asset for every i.
C11_LengthsAndOrder ==
    \A v \in Normalized :
        LET n == Len(call.arg.portfolio)
        IN /\ Len(v.selected) = n /\ Len(v.weights) = n /\ Len(v.allocation) = n
           /\ \A i \in 1..n :
                /\ v.selected[i] = call.arg.portfolio[i].asset
                /\ v.allocation[i].name = call.arg.portfolio[i].asset

\* C11 witness: a portfolio that lists Y before X has been normalized.
C11_Witness ==
    /\ Normalized # {}
    /\ Len(call.arg.portfolio) = 2
    /\ call.arg.portfolio[1].asset = "Y" /\ call.arg.portfolio[2].asset = "X"

\* The nearest integer to a value in tenths, a half going up.
Nearest(tenths) ==
    CHOOSE k \in 0..101 : 10 * k - 5 <= tenths /\ tenths < 10 * k + 5

\* C12: the allocation value of entry i is round(percentage) when the entry
\* has a percentage and round(weight * 100) when it has none; weights 0.5,
\* 0.3, 0.2 without percentage give 50, 30, 20.
C12_AllocationValue ==
    \A v \in Normalized :
        /\ \A i \in 1..Len(call.arg.portfolio) :
            LET p == call.arg.portfolio[i]
            IN v.allocation[i].value =
                 IF "percentage" \in DOMAIN p THEN Nearest(p.percentage)
                 ELSE Nearest(p.weight)
        /\ call.arg = BodyXYZ =>
              /\ v.allocation[1].value = 50
              /\ v.allocation[2].value = 30
              /\ v.allocation[3].value = 20

\* C12 witness: a response with one entry carrying percentage 62.5 and one
\* carrying only weight 0.4 has been normalized to 63 and 40.
C12_Witness ==
    /\ call.fn = "normalizeOptimize"
    /\ call.arg = BodyPct
    /\ \E v \in Normalized :
        v.allocation[1].value = 63 /\ v.allocation[2].value = 40

\* The entries of a portfolio that carry an expected_return.
Present(portfolio) ==
    {i \in 1..Len(portfolio) : "expected_return" \in DOMAIN portfolio[i]}

RECURSIVE SumOver(_, _)
SumOver(portfolio, idx) ==
    IF idx = {} THEN 0
    ELSE LET i == CHOOSE j \in idx : TRUE
         IN portfolio[i].expected_return + SumOver(portfolio, idx \ {i})

\* C13: expectedReturn is the mean of the expected_return values that are
\* present, absent when there is none; entries without one add nothing to
\* the sum and nothing to the count.
C13_MeanOfPresent ==
    \A v \in Normalized :
        LET present == Present(call.arg.portfolio)
        IN IF present = {} THEN v.expectedReturn = <<>>
           ELSE /\ v.expectedReturn # <<>>
                /\ v.expectedReturn[1].count = Cardinality(present)
                /\ v.expectedReturn[1].sum = SumOver(call.arg.portfolio, present)

\* C13 witness: a portfolio of two entries, the first with expected_return
\* 12 and the second with none, has been normalized to the mean 12 / 1.
C13_Witness ==
    /\ Normalized # {}
    /\ Len(call.arg.portfolio) = 2
    /\ Present(call.arg.portfolio) = {1}
    /\ \E v \in Normalized : v.expectedReturn = <<[sum |-> 12, count |-> 1]>>

\* The solver's dataset for each client dataset.
DatasetTable ==
    [NIFTY50 |-> "NIFTY50", NASDAQ100 |-> "NASDAQ", CRYPTO50 |-> "Crypto"]

\* C14: the dataset_option of toFastApiOptimizeBody is one of NIFTY50,
\* NASDAQ, Crypto, the table's entry for a client enum value and NIFTY50 for
\* any other value.
C14_DatasetOption ==
    call.fn = "toFastApiOptimizeBody" =>
        \A i \in 1..Len(call.outs) :
            /\ call.outs[i].dataset_option \in {"NIFTY50", "NASDAQ", "Crypto"}
            /\ call.outs[i].dataset_option =
                 IF call.arg.dataset \in DOMAIN DatasetTable
                 THEN DatasetTable[call.arg.dataset] ELSE "NIFTY50"

\* C14 witness: a request with a dataset outside the client enum has been
\* mapped to NIFTY50.
C14_Witness ==
    /\ call.fn = "toFastApiOptimizeBody"
    /\ call.arg.dataset = "SP500"
    /\ Len(call.outs) >= 1 /\ call.outs[1].dataset_option = "NIFTY50"

ViolatesInvariants(body) ==
    \/ body.maxAssets < 1
    \/ /\ "constraints" \in DOMAIN body
       /\ {"minWeight", "maxWeight"} \subseteq DOMAIN body.constraints
       /\ body.constraints.minWeight > body.constraints.maxWeight

\* C16: OptimizeRequestSchema.parse rejects every payload with maxAssets
\* below 1 and every payload whose constraints have minWeight greater than
\* maxWeight.
C16_RejectsInvariantViolations ==
    call.fn = "OptimizeRequestSchema.parse" =>
        \A i \in 1..Len(call.outs) :
            ViolatesInvariants(call.arg) => ~call.outs[i].ok

\* The fields of a payload that break the request invariants.
ViolatedFields(body) ==
    {f \in {"timeHorizon", "budget", "maxAssets"} : body[f] < 1}
    \cup (IF body.dataset \in {"NIFTY50", "NASDAQ100", "CRYPTO50"} THEN {}
          ELSE {"dataset"})

C18_FixtureFailureIsInternal ==
    \A r \in Reqs :
        (req[r].mock /\ req[r].pc = "failed") => req[r].kind = "internal"

\* No solver base URL is set, in the environment or in the configuration.
NoBaseUrl == env.QUANTUM_BASE_URL = "" /\ config.quantumBaseUrl = ""

\* C19: with mock mode off and no solver base URL, a request with a valid
\* payload fails with upstream_unavailable and issues no fetch.
C19_NoBaseUrl ==
    \A r \in Reqs :
        (/\ req[r].pc # "idle" /\ ~Malformed(req[r].body)
         /\ ~MockMode(env, config) /\ NoBaseUrl)
            => /\ req[r].pc = "failed"
               /\ req[r].kind = "upstream_unavailable"
               /\ req[r].calls = 0 /\ req[r].net = "none"

\* C19 witness: with mock mode off and no base URL, a validated request on
\* each optimize route has failed without a call.
C19_Witness ==
    /\ ~MockMode(env, config) /\ NoBaseUrl
    /\ \E r, q \in Reqs :
        /\ req[r].route = "optimize" /\ req[q].route = "optimizeJSON"
        /\ req[r].trace = <<"received", "validated", "failed">>
        /\ req[q].trace = <<"received", "validated", "failed">>
        /\ req[r].calls = 0 /\ req[q].calls = 0

\* C20: no request that the host has cancelled has a solver call in flight.
C20_CancelAborts ==
    \A r \in Reqs : req[r].cancelled => req[r].net = "none"

\* The successful results of the call in progress, whichever service made
\* them.
Results ==
    IF call.fn \in {"normalizeOptimize", "callQuantumOptimize"}
    THEN {call.outs[i].value : i \in {k \in 1..Len(call.outs) : call.outs[k].ok}}
    ELSE {}

\* C21: the runId of a result is the runId of the solver response when the
\* response has one; a generated one appears only when it has none.
C21_RunIdFromSolver ==
    \A v \in Results :
        "runId" \in DOMAIN call.arg => v.runId = call.arg.runId

\* The nearest integer to a value in tenths, a half going away from zero.
HalfAwayFromZero(tenths) ==
    IF tenths >= 0 THEN (tenths + 5) \div 10 ELSE 0 - ((5 - tenths) \div 10)

C23_ConfigReadOnce ==
    \A r \in Reqs :
        (req[r].pc # "idle" /\ ~Malformed(req[r].body))
            => /\ req[r].mock = config.mockMode
               /\ ~config.mockMode =>
                     ((req[r].calls = 1) = (config.quantumBaseUrl # ""))

\* What a live call on the route of rq makes of the solver payload F.
Live(rq, F) == ServiceTail(rq.route, F, FALSE, Now(0))

C25_PassThrough ==
    call.fn = "toFastApiOptimizeBody" =>
        \A i \in 1..Len(call.outs) :
            /\ call.outs[i].budget = call.arg.maxAssets
            /\ call.outs[i].total_investment = call.arg.budget
            /\ call.outs[i].risk_factor =
                 (IF call.arg.riskLevel \in {"low", "medium", "high"}
                  THEN call.arg.riskLevel ELSE "medium")

\* C25 witness: a request with maxAssets 3, budget 100000 and no riskLevel
\* has been mapped to budget 3, total_investment 100000, risk_factor medium.
C25_Witness ==
    /\ call.fn = "toFastApiOptimizeBody"
    /\ call.arg.maxAssets = 3 /\ call.arg.budget = 100000
    /\ call.arg.riskLevel = ""
    /\ Len(call.outs) >= 1
    /\ call.outs[1].budget = 3 /\ call.outs[1].total_investment = 100000
    /\ call.outs[1].risk_factor = "medium"

\* What a client sees of a request: how it ended, and the response without
\* its runId.
Outcome(rq) ==
    [pc |-> rq.pc, kind |-> rq.kind, status |-> rq.status,
     details |-> rq.details,
     result |-> IF rq.result = <<>> THEN <<>> ELSE <<WithoutRunId(rq.result[1])>>]

\* The outcome of a service that ended with out.
OutcomeOf(rq, out) ==
    IF out.ok
    THEN [pc |-> "returned", kind |-> "none", status |-> 200, details |-> <<>>,
          result |-> <<WithoutRunId(out.value)>>]
    ELSE Outcome(Catch(rq, out.error))

\* The outcome of a request run alone with the payload, the configuration,
\* the fixture and the solver's behaviour that request rq had.
Alone(rq) ==
    LET start == Handle([Step(Idle, "received") EXCEPT
                            !.route = rq.route, !.body = rq.body], env, config)
    IN CASE start.pc = "failed" -> Outcome(start)
         [] start.pc = "mocked" ->
              IF ~fixture.exists THEN Outcome(Catch(start, PlainError("ENOENT")))
              ELSE IF ~fixture.content.parses
              THEN Outcome(Catch(start, PlainError("SyntaxError")))
              ELSE OutcomeOf(start, ServiceTail(rq.route, fixture.content.value,
                                                TRUE, Now(0)))
         [] OTHER ->
              IF rq.replyStatus = 0
              THEN Outcome(Catch(start, TypedError(
                       IF rq.timer = "fired" THEN "upstream_timeout"
                       ELSE "upstream_unavailable")))
              ELSE IF rq.replyStatus # 200
              THEN Outcome(Catch(start, TypedError(
                       IF rq.replyStatus = 504 THEN "upstream_timeout"
                       ELSE "upstream_unavailable")))
              ELSE IF ~rq.reply[1].parses
              THEN Outcome(Catch(start, PlainError("SyntaxError")))
              ELSE OutcomeOf(start, ServiceTail(rq.route, rq.reply[1].value,
                                                FALSE, Now(0)))

\* C26: whatever the interleaving of the requests, the outcome of each
\* request that has ended is the outcome it has when run alone.
C26_Independent ==
    \A r \in Reqs : Ended(r) => Outcome(req[r]) = Alone(req[r])

\* C26 witness: two live requests on one route were in flight together; one
\* has returned and the other has failed.
C26_Witness ==
    /\ ~serial
    /\ \E r, q \in Reqs :
        /\ r < q /\ Ended(r) /\ Ended(q)
        /\ req[r].calls = 1 /\ req[q].calls = 1
        /\ req[r].pc = "returned" /\ req[q].pc = "failed"
        /\ req[r].route = req[q].route

TimerDone == {"cleared", "fired"}

C30_NoTimerLeft ==
    [][\A r \in Reqs :
         /\ (req'[r].calls > 0 /\ req'[r].net # "pending")
                => req'[r].timer \in TimerDone
         /\ req[r].timer \in TimerDone => req'[r].timer = req[r].timer]_vars

\* One call has settled by a response and another one by the abort.
C30_Witness ==
    \E r1, r2 \in Reqs :
        /\ req[r1].timer = "cleared" /\ req[r1].replyStatus = 200
        /\ req[r1].pc = "returned"
        /\ req[r2].timer = "fired" /\ req[r2].kind = "upstream_timeout"

\* C29: in the Dashboard, loading.frontier is true whenever a call of
\* fetchEfficientFrontier is in flight, and once every effect that started
\* has ended all loading flags are false.
FrontierInFlight ==
    \E rn \in BagToSet(dash.runs) : "fetchEfficientFrontier" \in rn.inflight

EffectsSettled == \A rn \in BagToSet(dash.runs) : rn.pc = "done"

C29_LoadingFlags ==
    /\ FrontierInFlight => dash.loading.frontier
    /\ (dash.mounted /\ EffectsSettled)
          => \A f \in LoadingFlags : ~dash.loading[f]

\* The second half of C29 on its own.
C29_FlagsClearedAtRest ==
    (dash.mounted /\ EffectsSettled) => \A f \in LoadingFlags : ~dash.loading[f]

\* C28: the evolution series of the Dashboard is never stale: once every
\* rebalance fetch that was started has settled, the series shown is the
\* result of the fetch that was started last.
EvoSettled == \A i \in DOMAIN evo.runs : evo.runs[i].pc # "pending"

ResultOf(rn) == IF rn.pc = "rejected" THEN <<>> ELSE SeriesOf(rn.reb[1])

C28_EvolutionFresh ==
    (evo.runs # <<>> /\ EvoSettled)
        => evo.evolution = ResultOf(evo.runs[Len(evo.runs)])

====
